---- MODULE Spec2Model ----
(***************************************************************************)
(* Model of the concurrent annotation pipeline of slg-ad-weekly-analyzer:  *)
(* src/src/analyzer.py, class VideoAnalyzer, and of src/main.py.           *)
(*                                                                         *)
(*   Spec         analyze_videos_concurrently: the pool's threads running  *)
(*                analyze_single_video over the shared cache and its file, *)
(*                in two successive process runs. _real_single_analysis is *)
(*                one step there: it returns an annotation or raises. The  *)
(*                process may be killed inside a cache write.              *)
(*   SpecReal     one _real_single_analysis, step by step: fetch, upload,  *)
(*                poll, inference through the coordinator, release.        *)
(*   SpecRetry    _call_api_with_retry alone, one remote call per step.    *)
(*   SpecSummary  one generate_strategy_summary, with its coordinator.     *)
(*   SpecMain     one run of main: fetch, the batch of Spec (one process   *)
(*                run), the summary, the report, the exit status.          *)
(*   SpecLive     the batch of Spec in one process run that is not killed, *)
(*                with fair scheduling of the threads.                     *)
(*   SpecRetryArgs  SpecRetry for every max_retries and candidate list.    *)
(*   SpecFetch    one _fetch_top_for_network of src/src/fetcher.py, one    *)
(*                page request or one ad unit per step.                    *)
(*                                                                         *)
(* The remote service, the network and the file system are the             *)
(* environment: each of their calls returns or raises, nondeterministically.*)
(***************************************************************************)
EXTENDS Integers, Sequences, FiniteSets, TLC

VARIABLES
    main,       \* the frame of main and the exit status of the process
    fetcher,    \* the frame of the running _fetch_top_for_network
    retry,      \* the frame of the running _call_api_with_retry
    real,       \* the frame of the running _real_single_analysis, with the
                \* remote asset and the temporary file it owns
    env,        \* what __init__ is given: GEMINI_API_KEY set or not, use_mock
    use_mock,   \* self.use_mock
    client,     \* whether self.client exists
    summary,    \* the frame of the running generate_strategy_summary
    videos,         \* the list given to analyze_videos_concurrently
    max_workers,    \* its concurrency bound
    results,        \* its local list results
    fut,            \* the futures, by index of the item they were submitted for
    workers,        \* the pool's threads, each in analyze_single_video or idle
    analysis_cache, \* self.analysis_cache
    cache_file,     \* the content of the file self.cache_file
    cache_lock,     \* self.cache_lock: 0 when free, else the thread holding it
    phase,          \* where the main thread is
    run,            \* the number of the current process run
    hist            \* history: the remote annotation calls made per identity,
                    \* the cache as loaded by this run, whether a persist of
                    \* this run failed, and the same of the previous run with
                    \* the items it computed

analyzerVars == <<env, use_mock, client>>

batchVars == <<videos, max_workers, results, fut, workers, analysis_cache,
               cache_file, cache_lock, phase, run, hist>>

vars == <<main, fetcher, retry, real, env, use_mock, client, summary, batchVars>>

\* The sequences over S of length at most n.
SeqUpTo(S, n) == UNION { [1..k -> S] : k \in 0..n }

(***************************************************************************)
(* Values                                                                  *)
(***************************************************************************)

\* Python's None where a string set is expected (last_error before any failure).
None == {"None"}

\* An exception raised by generate_content is modelled by the set of the
\* substrings of str(e).lower() that the code tests for or that tell the
\* failure classes of the annotation service apart.
AllErrors ==
    { {"404"}, {"not found"}, {"429"}, {"500"}, {"503"}, {"502"}, {"400"},
      {"404", "429"} }

\* The bodies a successful generate_content can carry: a parsed object, no
\* parsed object but a text that is JSON, no parsed object and a text that is
\* not JSON.
Bodies == {"parsed", "text", "garbage"}

NoResponse == [model |-> "none", body |-> "none"]

\* The candidate lists of the two callers.
AnalysisModels == <<"gemini-3-flash-preview", "gemini-2.5-flash">>
SummaryModels  == <<"gemini-3.1-pro-preview", "gemini-2.5-pro">>

\* max_retries: int = 3
DefaultMaxRetries == 3

\* retry_delay = 2
InitialRetryDelay == 2

(***************************************************************************)
(* _call_api_with_retry                                                    *)
(***************************************************************************)

\* The two for loops: the position (attempt, model_ix) of the next remote call,
\* or exhaustion when range(max_retries) is used up. model_ix counts from 1.
RECURSIVE LoopPos(_, _, _, _)
LoopPos(models, max, attempt, ix) ==
    IF attempt >= max
    THEN [done |-> TRUE, attempt |-> attempt, model_ix |-> ix]
    ELSE IF ix > Len(models)
         THEN LoopPos(models, max, attempt + 1, 1)
         ELSE [done |-> FALSE, attempt |-> attempt, model_ix |-> ix]

\* Mutant of Goto: the outer loop runs one round more than max_retries.
GotoOneMoreRound(r, attempt, ix) ==
    LET p == LoopPos(r.models_to_try, r.max_retries + 1, attempt, ix)
    IN  [r EXCEPT !.attempt = p.attempt,
                  !.model_ix = p.model_ix,
                  !.pc = IF p.done THEN "raised" ELSE "call"]

\* Move the frame r to loop position (attempt, ix); the raise after the loops
\* when there is no such position.
Goto(r, attempt, ix) ==
    LET p == LoopPos(r.models_to_try, r.max_retries, attempt, ix)
    IN  [r EXCEPT !.attempt = p.attempt,
                  !.model_ix = p.model_ix,
                  !.pc = IF p.done THEN "raised" ELSE "call"]

\* Entry of the function up to its first remote call.
RetryEnter(models, max) ==
    Goto([pc |-> "call",
          models_to_try |-> models,
          max_retries |-> max,
          attempt |-> 0,
          model_ix |-> 1,
          retry_delay |-> InitialRetryDelay,
          last_error |-> None,
          response |-> NoResponse,
          calls |-> <<>>,
          sleeps |-> <<>>], 0, 1)

\* A frame that is not running.
RetryIdle == [RetryEnter(<<>>, 0) EXCEPT !.pc = "idle"]

\* "404" in str(e) or "not found" in str(e).lower()
IsNotFound(e) == "404" \in e \/ "not found" \in e

\* Mutant of IsRateLimit: the test looks for another status code.
IsRateLimitWrongCode(e) == "430" \in e

\* "429" in str(e)
IsRateLimit(e) == "429" \in e

\* "500" in str(e) or "503" in str(e)
IsServerError(e) == "500" \in e \/ "503" \in e

\* Mutant of Continue: a failure that should fall through to the next candidate
\* ends the round instead.
ContinueEndsRound(r) == Goto(r, r.attempt + 1, 1)

\* Mutant of Continue: the coordinator sleeps before the next candidate.
ContinueSleeps(r) ==
    Goto([r EXCEPT !.sleeps = Append(@, r.retry_delay)], r.attempt, r.model_ix + 1)

\* continue: the next candidate model of this round
Continue(r) == Goto(r, r.attempt, r.model_ix + 1)

\* Mutant of Backoff: the delay is not doubled.
BackoffFixedDelay(r) ==
    Goto([r EXCEPT !.sleeps = Append(@, r.retry_delay)], r.attempt + 1, 1)

\* Mutant of Backoff: the delay is doubled before the sleep.
BackoffDoublesFirst(r) ==
    Goto([r EXCEPT !.sleeps = Append(@, r.retry_delay * 2),
                   !.retry_delay = @ * 2],
         r.attempt + 1, 1)

\* time.sleep(retry_delay); retry_delay *= 2; break
Backoff(r) ==
    Goto([r EXCEPT !.sleeps = Append(@, r.retry_delay),
                   !.retry_delay = @ * 2],
         r.attempt + 1, 1)

\* Mutant of OnFailure: last_error is recorded by the final branch only.
OnFailureStaleError(r, e) ==
    LET r1 == [r EXCEPT !.calls = Append(@, [model |-> r.models_to_try[r.model_ix],
                                             attempt |-> r.attempt,
                                             slept |-> Len(r.sleeps),
                                             ok |-> FALSE,
                                             error |-> e,
                                             body |-> "none"])]
    IN  IF IsNotFound(e) THEN Continue(r1)
        ELSE IF IsRateLimit(e) /\ r.attempt < r.max_retries - 1 THEN Backoff(r1)
        ELSE IF IsServerError(e) /\ r.attempt < r.max_retries - 1 THEN Backoff(r1)
        ELSE Continue([r1 EXCEPT !.last_error = e])

\* The except clause for a generate_content that raised e.
OnFailure(r, e) ==
    LET r1 == [r EXCEPT !.last_error = e,
                        !.calls = Append(@, [model |-> r.models_to_try[r.model_ix],
                                             attempt |-> r.attempt,
                                             slept |-> Len(r.sleeps),
                                             ok |-> FALSE,
                                             error |-> e,
                                             body |-> "none"])]
    IN  IF IsNotFound(e) THEN Continue(r1)
        ELSE IF IsRateLimit(e) /\ r.attempt < r.max_retries - 1 THEN Backoff(r1)
        ELSE IF IsServerError(e) /\ r.attempt < r.max_retries - 1 THEN Backoff(r1)
        ELSE Continue(r1)

\* return response
OnSuccess(r, b) ==
    [r EXCEPT !.pc = "returned",
              !.response = [model |-> r.models_to_try[r.model_ix], body |-> b],
              !.calls = Append(@, [model |-> r.models_to_try[r.model_ix],
                                   attempt |-> r.attempt,
                                   slept |-> Len(r.sleeps),
                                   ok |-> TRUE,
                                   error |-> None,
                                   body |-> b])]

\* One pass through the try statement: self.client.models.generate_content
\* either returns a response or raises one of the errors of Errs.
GenerateContent(Errs) ==
    /\ retry.pc = "call"
    /\ \/ \E b \in Bodies : retry' = OnSuccess(retry, b)
       \/ \E e \in Errs : retry' = OnFailure(retry, e)

\* The frame _call_api_with_retry reaches from frame r when its remote calls
\* meet the outcomes k, k + 1, ... of a script, as long as it makes calls.
RECURSIVE Replay(_, _, _)
Replay(r, outcomes, k) ==
    IF k > Len(outcomes) \/ r.pc # "call"
    THEN r
    ELSE Replay(IF outcomes[k].ok
                THEN OnSuccess(r, outcomes[k].body)
                ELSE OnFailure(r, outcomes[k].error),
                outcomes, k + 1)

(***************************************************************************)
(* _real_single_analysis                                                   *)
(***************************************************************************)

\* max_wait_time = 180
MaxWaitTime == 180

\* wait_interval = 5
WaitInterval == 5

\* gemini_file.state.name
FileStates == {"PROCESSING", "ACTIVE", "FAILED"}

\* The errors the inference call meets inside _real_single_analysis.
InferErrors == { {"404"}, {"429"}, {"502"} }

\* Entry: the video_url test that precedes the try statement.
RealEnter(video_url) ==
    [pc |-> IF video_url = "" THEN "raised" ELSE "fetch",
     video_url |-> video_url,
     gemini_file |-> "None",
     temp_file_path |-> "None",
     waited |-> 0,
     error |-> IF video_url = "" THEN "ValueError" ELSE "None",
     result |-> "None",
     temp_exists |-> FALSE,
     remote_exists |-> FALSE,
     fetches |-> 0,
     uploads |-> 0,
     polls |-> 0,
     infers |-> 0,
     remote_deletes |-> 0,
     local_removes |-> 0]

RealIdle == [RealEnter("") EXCEPT !.pc = "idle", !.error = "None"]

\* Mutant of Raise: the exception leaves the function without the cleanup.
RaiseSkipsFinally(f, err) == [f EXCEPT !.error = err, !.pc = "raised"]

\* An exception inside the try statement: control passes to the finally clause.
Raise(f, err) == [f EXCEPT !.error = err, !.pc = "release_remote"]

\* Mutant of Fetch: a failed download is tried a second time.
FetchRetries ==
    /\ real.pc = "fetch"
    /\ \/ real' = [real EXCEPT !.fetches = @ + 1, !.pc = "write"]
       \/ real' = IF real.fetches = 0
                  THEN [real EXCEPT !.fetches = @ + 1]
                  ELSE Raise([real EXCEPT !.fetches = @ + 1], "FetchError")
    /\ UNCHANGED <<retry, main, fetcher, analyzerVars, summary, batchVars>>

\* requests.get(video_url, ...); response.raise_for_status()
Fetch ==
    /\ real.pc = "fetch"
    /\ \/ real' = [real EXCEPT !.fetches = @ + 1, !.pc = "write"]
       \/ real' = Raise([real EXCEPT !.fetches = @ + 1], "FetchError")
    /\ UNCHANGED <<retry, main, fetcher, analyzerVars, summary, batchVars>>

\* tempfile.mkstemp and the loop that writes the chunks.
WriteTemp ==
    /\ real.pc = "write"
    /\ \/ real' = Raise(real, "MkstempError")
       \/ real' = Raise([real EXCEPT !.temp_file_path = "tmp.mp4",
                                     !.temp_exists = TRUE], "WriteError")
       \/ real' = [real EXCEPT !.temp_file_path = "tmp.mp4",
                               !.temp_exists = TRUE,
                               !.pc = "upload"]
    /\ UNCHANGED <<retry, main, fetcher, analyzerVars, summary, batchVars>>

\* gemini_file = self.client.files.upload(file=temp_file_path)
Upload ==
    /\ real.pc = "upload"
    /\ \/ real' = Raise([real EXCEPT !.uploads = @ + 1], "UploadError")
       \/ \E st \in FileStates :
             real' = [real EXCEPT !.uploads = @ + 1,
                                  !.gemini_file = st,
                                  !.remote_exists = TRUE,
                                  !.pc = "poll"]
    /\ UNCHANGED <<retry, main, fetcher, analyzerVars, summary, batchVars>>

\* Mutant of Poll: the bound is tested with > instead of >=.
PollOffByOne ==
    /\ real.pc = "poll"
    /\ real.gemini_file = "PROCESSING"
    /\ IF real.waited > MaxWaitTime
       THEN real' = Raise(real, "TimeoutError")
       ELSE \/ real' = Raise([real EXCEPT !.waited = @ + WaitInterval,
                                          !.polls = @ + 1], "PollError")
            \/ \E st \in FileStates :
                  real' = [real EXCEPT !.waited = @ + WaitInterval,
                                       !.polls = @ + 1,
                                       !.gemini_file = st]
    /\ UNCHANGED <<retry, main, fetcher, analyzerVars, summary, batchVars>>

\* One iteration of the while loop over gemini_file.state.name == "PROCESSING".
Poll ==
    /\ real.pc = "poll"
    /\ real.gemini_file = "PROCESSING"
    /\ IF real.waited >= MaxWaitTime
       THEN real' = Raise(real, "TimeoutError")
       ELSE \/ real' = Raise([real EXCEPT !.waited = @ + WaitInterval,
                                          !.polls = @ + 1], "PollError")
            \/ \E st \in FileStates :
                  real' = [real EXCEPT !.waited = @ + WaitInterval,
                                       !.polls = @ + 1,
                                       !.gemini_file = st]
    /\ UNCHANGED <<retry, main, fetcher, analyzerVars, summary, batchVars>>

\* The loop is left: the FAILED test, then the call of _call_api_with_retry.
StartInference ==
    /\ real.pc = "poll"
    /\ real.gemini_file # "PROCESSING"
    /\ IF real.gemini_file = "FAILED"
       THEN /\ real' = Raise(real, "ProcessingFailed")
            /\ UNCHANGED retry
       ELSE /\ real' = [real EXCEPT !.pc = "infer", !.infers = @ + 1]
            /\ retry' = RetryEnter(AnalysisModels, DefaultMaxRetries)
    /\ UNCHANGED <<main, fetcher, analyzerVars, summary, batchVars>>

\* The remote calls of the coordinator on behalf of _real_single_analysis.
InferCall ==
    /\ real.pc = "infer"
    /\ GenerateContent(InferErrors)
    /\ UNCHANGED <<real, main, fetcher, analyzerVars, summary, batchVars>>

\* The coordinator is back: its exception propagates, or the response is
\* decoded (api_response.parsed, else json.loads(api_response.text)).
Decode ==
    /\ real.pc = "infer"
    /\ retry.pc \in {"returned", "raised"}
    /\ real' = IF retry.pc = "raised" THEN Raise(real, "Exhausted")
               ELSE IF retry.response.body = "garbage" THEN Raise(real, "DecodeError")
               ELSE [real EXCEPT !.result = "analysis", !.pc = "release_remote"]
    /\ UNCHANGED <<retry, main, fetcher, analyzerVars, summary, batchVars>>

\* Mutant of ReleaseRemote: a failure of the delete leaves the function as an
\* exception, before the local file is looked at.
ReleaseRemoteEscalates ==
    /\ real.pc = "release_remote"
    /\ IF real.gemini_file # "None"
       THEN \/ real' = [real EXCEPT !.remote_deletes = @ + 1,
                                    !.remote_exists = FALSE,
                                    !.pc = "release_local"]
            \/ real' = [real EXCEPT !.remote_deletes = @ + 1,
                                    !.error = "DeleteError",
                                    !.result = "None",
                                    !.pc = "raised"]
       ELSE real' = [real EXCEPT !.pc = "release_local"]
    /\ UNCHANGED <<retry, main, fetcher, analyzerVars, summary, batchVars>>

\* finally: if gemini_file: self.client.files.delete(...), failure logged.
ReleaseRemote ==
    /\ real.pc = "release_remote"
    /\ IF real.gemini_file # "None"
       THEN \E ok \in BOOLEAN :
              real' = [real EXCEPT !.remote_deletes = @ + 1,
                                   !.remote_exists = ~ok,
                                   !.pc = "release_local"]
       ELSE real' = [real EXCEPT !.pc = "release_local"]
    /\ UNCHANGED <<retry, main, fetcher, analyzerVars, summary, batchVars>>

\* finally: if temp_file_path and os.path.exists(...): os.remove(...), failure
\* logged; then the function returns or the pending exception propagates.
ReleaseLocal ==
    /\ real.pc = "release_local"
    /\ LET exit == IF real.error = "None" THEN "returned" ELSE "raised"
       IN  IF real.temp_file_path # "None" /\ real.temp_exists
           THEN \E ok \in BOOLEAN :
                  real' = [real EXCEPT !.local_removes = @ + 1,
                                       !.temp_exists = ~ok,
                                       !.pc = exit]
           ELSE real' = [real EXCEPT !.pc = exit]
    /\ UNCHANGED <<retry, main, fetcher, analyzerVars, summary, batchVars>>

(***************************************************************************)
(* SensorTowerFetcher._fetch_top_for_network                               *)
(***************************************************************************)

\* max_pages = 10
MaxPages == 10

\* while len(target_ads) < 30 ...: the number of ads wanted
TopCount == 30

\* The ad units marked as seen without being kept that a call may meet.
MaxDropped == 1

\* Entry of the function: target_ads = [], seen_ad_ids = set(),
\* current_page = 1.  requests is the history of the page requests, each with
\* the page asked for and what came back.
\* Ad ids are compared for equality only: the ids are numbered in the order
\* in which the function meets them for the first time.
FetcherEnter ==
    [pc |-> "while",
     current_page |-> 1,
     target_ads |-> <<>>,
     seen_ad_ids |-> {},
     unit_read |-> FALSE,
     requests |-> <<>>,
     final_top |-> <<>>]

\* A frame that is not running.
FetcherIdle == [FetcherEnter EXCEPT !.pc = "idle"]

\* len(target_ads) < 30 and current_page <= max_pages
WhileTest == Len(fetcher.target_ads) < TopCount /\ fetcher.current_page <= MaxPages

\* What requests.get and response.json() give for one page: a status other
\* than 200, a body that is not JSON, no ad units, or some ad units.
PageOutcomes == {"status", "malformed", "empty", "units"}

\* params["page"] = current_page; requests.get; the status test, the decoding
\* and the test for an empty page.
RequestPage ==
    /\ fetcher.pc = "while"
    /\ WhileTest
    /\ \E o \in PageOutcomes :
         fetcher' = [fetcher EXCEPT
                       !.requests = Append(@, [page |-> fetcher.current_page,
                                               outcome |-> o]),
                       !.unit_read = FALSE,
                       !.pc = CASE o = "units" -> "units"
                                [] o = "malformed" -> "raised"
                                [] OTHER -> "break"]
    /\ UNCHANGED <<retry, real, main, analyzerVars, summary, batchVars>>

\* The ad id a unit brings that was not met before.
FreshId == Cardinality(fetcher.seen_ad_ids) + 1

\* The ad units a page may hold: the app is one of the targets or not; id is 0
\* for a missing or empty one, else one met before or the fresh one; creatives
\* is absent or empty, or the first creative has no creative_url, or it has
\* one; dates tells whether first_seen_at and last_seen_at can be sliced.
AdUnits ==
    {[is_target |-> FALSE, id |-> FreshId, creatives |-> "url", dates |-> TRUE],
     [is_target |-> TRUE, id |-> 0, creatives |-> "url", dates |-> TRUE]}
    \cup [is_target : {TRUE}, id : fetcher.seen_ad_ids, creatives : {"url"}, dates : {TRUE}]
    \cup [is_target : {TRUE}, id : {FreshId}, creatives : {"none", "no_url"}, dates : {TRUE}]
    \cup [is_target : {TRUE}, id : {FreshId}, creatives : {"url"}, dates : BOOLEAN]

\* Mutant of IsNew: ad ids met before are not filtered.
IsNewNoDedupe(id) == id # 0

\* ad_id and ad_id not in seen_ad_ids
IsNew(id) == id # 0 /\ id \notin fetcher.seen_ad_ids

\* The dictionary appended to target_ads for a unit; rank is set at the end.
Ad(unit) == [ad_id |-> unit.id, video_url |-> "creative_url", rank |-> 0]

\* One pass through the body of for unit in ad_units_top, for a unit that is
\* there while fewer than 30 ads are held.
ReadUnit ==
    /\ fetcher.pc = "units"
    /\ Len(fetcher.target_ads) < TopCount
    /\ \E unit \in AdUnits :
         IF unit.is_target /\ IsNew(unit.id)
         THEN IF unit.creatives = "url"
              THEN IF unit.dates
                   THEN fetcher' = [fetcher EXCEPT
                                      !.seen_ad_ids = @ \cup {unit.id},
                                      !.target_ads = Append(@, Ad(unit)),
                                      !.unit_read = TRUE]
                   ELSE fetcher' = [fetcher EXCEPT
                                      !.seen_ad_ids = @ \cup {unit.id},
                                      !.unit_read = TRUE,
                                      !.pc = "raised"]
              ELSE /\ Cardinality(fetcher.seen_ad_ids) - Len(fetcher.target_ads) < MaxDropped
                   /\ fetcher' = [fetcher EXCEPT
                                    !.seen_ad_ids = @ \cup {unit.id},
                                    !.unit_read = TRUE]
         ELSE fetcher' = [fetcher EXCEPT !.unit_read = TRUE]
    /\ UNCHANGED <<retry, real, main, analyzerVars, summary, batchVars>>

\* The for loop is left, at the end of the page or by the break once 30 ads
\* are held: current_page += 1.
EndPage ==
    /\ fetcher.pc = "units"
    /\ fetcher.unit_read
    /\ fetcher' = [fetcher EXCEPT !.current_page = @ + 1, !.pc = "while"]
    /\ UNCHANGED <<retry, real, main, analyzerVars, summary, batchVars>>

\* The first n elements of s, as s[:n] gives them.
Take(s, n) == SubSeq(s, 1, IF Len(s) < n THEN Len(s) ELSE n)

\* final_top = target_ads[:30] with video["rank"] = i + 1
Ranked(ads) == [i \in 1..Len(ads) |-> [ads[i] EXCEPT !.rank = i]]

\* The while loop is left, by its test or by a break: the ranks are set and
\* final_top is returned.
Finalize ==
    /\ \/ fetcher.pc = "break"
       \/ fetcher.pc = "while" /\ ~WhileTest
    /\ fetcher' = [fetcher EXCEPT !.final_top = Ranked(Take(fetcher.target_ads, TopCount)),
                                  !.pc = "returned"]
    /\ UNCHANGED <<retry, real, main, analyzerVars, summary, batchVars>>

(***************************************************************************)
(* __init__ (the part that decides the mode)                               *)
(***************************************************************************)

\* Mutant of InitUseMock: no fallback to mock when the key is missing.
InitUseMockNoFallback(arg, key) == arg

\* self.use_mock after __init__(use_mock=arg) with the key set or not.
InitUseMock(arg, key) == IF ~arg /\ key THEN arg ELSE IF ~arg THEN TRUE ELSE arg

\* Whether __init__ creates self.client.
InitClient(arg, key) == ~arg /\ key

Constructed ==
    \E arg \in BOOLEAN, key \in BOOLEAN :
        /\ env = [use_mock |-> arg, GEMINI_API_KEY |-> key]
        /\ use_mock = InitUseMock(arg, key)
        /\ client = InitClient(arg, key)

\* The analyzer of the specifications that run one remote routine directly.
RealMode ==
    /\ env = [use_mock |-> FALSE, GEMINI_API_KEY |-> TRUE]
    /\ use_mock = FALSE
    /\ client = TRUE

(***************************************************************************)
(* The cache, the annotation worker and the scheduler                      *)
(***************************************************************************)

\* Longest list given to analyze_videos_concurrently.
MaxItems == 2

\* The threads of the pool: two, so that any two workers interleave in every
\* way; max_workers is 1 or 2.
Threads == {1, 2}

\* The successive process runs over the same cache file: a first run and a
\* second one that finds what the first persisted.
Runs == {1, 2}

\* The identities (video URLs); "" stands for an item without video_url.
Ids == {"A1", "A2"}
Urls == Ids \cup {""}

\* The value under "analysis": the fixed dictionary of _mock_single_analysis,
\* the annotation decoded from the remote call made in run r for item i, or
\* no "analysis" key at all.
Placeholder == [kind |-> "placeholder", run |-> 0, by |-> 0]
Genuine(r, i) == [kind |-> "genuine", run |-> r, by |-> i]
Absent == [kind |-> "absent", run |-> 0, by |-> 0]

\* An annotation persisted by a run that precedes the modelled ones.
OldGenuine == Genuine(0, 0)

\* The item at position i of the list: the provider ranks them by position.
Item(i, u) == [video_url |-> u, rank |-> i]

VideoLists ==
    { [i \in 1..n |-> Item(i, us[i])] :
        n \in 0..MaxItems, us \in [1..MaxItems -> Urls] }

\* None in results
NoResult == [video_url |-> "None", rank |-> 0, analysis |-> Absent]

\* result = video_data.copy(); result["analysis"] = a
WithAnalysis(video, a) ==
    [video_url |-> video.video_url, rank |-> video.rank, analysis |-> a]

\* A scheduler fallback that would attach the fixed annotation to the item.
OriginalWithPlaceholder(video) == WithAnalysis(video, Placeholder)

\* The item itself, which has no "analysis".
Original(video) == WithAnalysis(video, Absent)

\* _mock_single_analysis
MockSingleAnalysis(video) == WithAnalysis(video, Placeholder)

EmptyMap == [u \in {} |-> Placeholder]

\* d[k] = v on a dict
DictSet(d, k, v) == [x \in (DOMAIN d) \cup {k} |-> IF x = k THEN v ELSE d[x]]

\* The file: missing, not JSON, a JSON object, or the JSON list [].
MissingFile == [kind |-> "missing", data |-> EmptyMap]
CorruptFile == [kind |-> "corrupt", data |-> EmptyMap]

\* Mutant of LoadCache: the file is never read.
LoadCacheIgnoresFile(file) == [kind |-> "dict", data |-> EmptyMap]

\* _load_cache: json.load of an existing file, {} when the file is missing or
\* does not decode.
LoadCache(file) ==
    IF file.kind \in {"dict", "list"}
    THEN [kind |-> file.kind, data |-> file.data]
    ELSE [kind |-> "dict", data |-> EmptyMap]

\* json.dump(self.analysis_cache, f): the text that json.load reads back as the
\* same object (string keys, string values).
JsonDump(cache) == [kind |-> cache.kind, data |-> cache.data]

\* Mutant of InCache: the lookup never finds an entry.
InCacheNever(u) == FALSE

\* video_url in self.analysis_cache
InCache(u) == analysis_cache.kind = "dict" /\ u \in DOMAIN analysis_cache.data

IdleWorker == [pc |-> "idle", i |-> 0, result |-> NoResult, path |-> "none"]

PendingFuture ==
    [state |-> "pending", exception |-> FALSE, result |-> NoResult,
     path |-> "none", collected |-> FALSE]

\* The work queue is first in, first out: the next task is the lowest pending.
Pending == { i \in 1..Len(videos) : fut[i].state = "pending" }
NextTask == CHOOSE i \in Pending : \A j \in Pending : i <= j

\* Mutant of ResultIndex: the results are stored in the order of completion.
ResultIndexByCompletion(i) ==
    Cardinality({ j \in 1..Len(videos) : fut[j].collected }) + 1

\* future_to_index[future]
ResultIndex(i) == i

\* analyze_single_video returns result, or raises, for the task of thread w.
Finish(w, res, path, exc) ==
    /\ fut' = [fut EXCEPT ![workers[w].i] =
                 [@ EXCEPT !.state = "finished", !.exception = exc,
                           !.result = res, !.path = path]]
    /\ workers' = [workers EXCEPT ![w] = IdleWorker]

\* analyze_videos_concurrently up to the submission of every item.
AnalyzeVideosConcurrently ==
    /\ phase = "constructed"
    /\ \E vs \in (IF run = 1 THEN VideoLists ELSE {videos}),
          k \in (IF run = 1 THEN 1..Cardinality(Threads) ELSE {max_workers}) :
         /\ videos' = vs
         /\ max_workers' = k
         /\ results' = [i \in 1..Len(vs) |-> NoResult]
         /\ fut' = [i \in 1..Len(vs) |-> PendingFuture]
    /\ phase' = "running"
    /\ UNCHANGED <<retry, real, main, fetcher, analyzerVars, summary, workers, analysis_cache,
                   cache_file, cache_lock, run, hist>>

\* Mutant of TakeTask: the pool runs a thread beyond max_workers.
TakeTaskUnbounded(w) ==
    /\ phase = "running"
    /\ workers[w].pc = "idle"
    /\ Pending # {}
    /\ fut' = [fut EXCEPT ![NextTask].state = "running"]
    /\ workers' = [workers EXCEPT ![w] = [IdleWorker EXCEPT !.pc = "lookup_acquire",
                                                            !.i = NextTask]]
    /\ UNCHANGED <<retry, real, main, fetcher, analyzerVars, summary, videos, max_workers, results,
                   analysis_cache, cache_file, cache_lock, phase, run, hist>>

\* A free thread of the pool takes the next task: analyze_single_video begins.
TakeTask(w) ==
    /\ phase = "running"
    /\ w <= max_workers
    /\ workers[w].pc = "idle"
    /\ Pending # {}
    /\ fut' = [fut EXCEPT ![NextTask].state = "running"]
    /\ workers' = [workers EXCEPT ![w] = [IdleWorker EXCEPT !.pc = "lookup_acquire",
                                                            !.i = NextTask]]
    /\ UNCHANGED <<retry, real, main, fetcher, analyzerVars, summary, videos, max_workers, results,
                   analysis_cache, cache_file, cache_lock, phase, run, hist>>

\* Mutant of Acquire: the with statement is entered without waiting for the
\* lock.
AcquireNoWait(w) ==
    /\ workers[w].pc \in {"lookup_acquire", "put_acquire", "save_acquire"}
    /\ cache_lock' = w
    /\ workers' = [workers EXCEPT ![w].pc =
                     CASE @ = "lookup_acquire" -> "lookup"
                       [] @ = "put_acquire" -> "put"
                       [] @ = "save_acquire" -> "save"]
    /\ UNCHANGED <<retry, real, main, fetcher, analyzerVars, summary, videos, max_workers, results,
                   fut, analysis_cache, cache_file, phase, run, hist>>

\* with self.cache_lock: entered at one of its three places.
Acquire(w) ==
    /\ workers[w].pc \in {"lookup_acquire", "put_acquire", "save_acquire"}
    /\ cache_lock = 0
    /\ cache_lock' = w
    /\ workers' = [workers EXCEPT ![w].pc =
                     CASE @ = "lookup_acquire" -> "lookup"
                       [] @ = "put_acquire" -> "put"
                       [] @ = "save_acquire" -> "save"]
    /\ UNCHANGED <<retry, real, main, fetcher, analyzerVars, summary, videos, max_workers, results,
                   fut, analysis_cache, cache_file, phase, run, hist>>

\* Mutant of Lookup: the early return on a hit leaves the lock held.
LookupKeepsLockOnHit(w) ==
    /\ workers[w].pc = "lookup"
    /\ cache_lock = w
    /\ LET video == videos[workers[w].i]
       IN  IF video.video_url # "" /\ InCache(video.video_url)
           THEN /\ cache_lock' = w
                /\ Finish(w, WithAnalysis(video, analysis_cache.data[video.video_url]),
                          "hit", FALSE)
           ELSE /\ cache_lock' = 0
                /\ workers' = [workers EXCEPT ![w].pc = "analyze"]
                /\ UNCHANGED fut
    /\ UNCHANGED <<retry, real, main, fetcher, analyzerVars, summary, videos, max_workers, results,
                   analysis_cache, cache_file, phase, run, hist>>

\* The cache lookup under the lock: on a hit the cached annotation is returned.
Lookup(w) ==
    /\ workers[w].pc = "lookup"
    /\ cache_lock = w
    /\ cache_lock' = 0
    /\ LET video == videos[workers[w].i]
       IN  IF video.video_url # "" /\ InCache(video.video_url)
           THEN Finish(w, WithAnalysis(video, analysis_cache.data[video.video_url]),
                       "hit", FALSE)
           ELSE /\ workers' = [workers EXCEPT ![w].pc = "analyze"]
                /\ UNCHANGED fut
    /\ UNCHANGED <<retry, real, main, fetcher, analyzerVars, summary, videos, max_workers, results,
                   analysis_cache, cache_file, phase, run, hist>>

\* The frame of thread w after the analysis gave res along path.
Analysed(w, res, path) == [workers[w] EXCEPT !.result = res, !.path = path]

\* if video_url and "analysis" in result: the cache is written, else return.
AfterAnalysis(w, res, path) ==
    IF res.video_url # "" /\ res.analysis # Absent
    THEN /\ workers' = [workers EXCEPT ![w] = [Analysed(w, res, path) EXCEPT
                                                 !.pc = "put_acquire"]]
         /\ UNCHANGED fut
    ELSE Finish(w, res, path, FALSE)

\* The mock analysis in mock mode; else _real_single_analysis, which returns an
\* annotation or raises, and the mock analysis when it raised.
Analyze(w) ==
    /\ workers[w].pc = "analyze"
    /\ LET i == workers[w].i
           video == videos[i]
       IN  IF use_mock
           THEN /\ AfterAnalysis(w, MockSingleAnalysis(video), "mock")
                /\ UNCHANGED hist
           ELSE IF video.video_url = ""
           THEN /\ AfterAnalysis(w, MockSingleAnalysis(video), "degraded")
                /\ UNCHANGED hist
           ELSE /\ hist' = [hist EXCEPT !.remote_calls[video.video_url] = @ + 1]
                /\ \/ AfterAnalysis(w, WithAnalysis(video, Genuine(run, i)), "computed")
                   \/ AfterAnalysis(w, MockSingleAnalysis(video), "degraded")
    /\ UNCHANGED <<retry, real, main, fetcher, analyzerVars, summary, videos, max_workers, results,
                   analysis_cache, cache_file, cache_lock, phase, run>>

\* Mutant of Put: the insert is not followed by _save_cache.
PutWithoutSave(w) ==
    /\ workers[w].pc = "put"
    /\ cache_lock = w
    /\ cache_lock' = 0
    /\ IF analysis_cache.kind = "dict"
       THEN /\ analysis_cache' =
                 [analysis_cache EXCEPT !.data =
                    DictSet(@, workers[w].result.video_url, workers[w].result.analysis)]
            /\ Finish(w, workers[w].result, workers[w].path, FALSE)
       ELSE /\ Finish(w, NoResult, "raised", TRUE)
            /\ UNCHANGED analysis_cache
    /\ UNCHANGED <<retry, real, main, fetcher, analyzerVars, summary, videos, max_workers, results,
                   cache_file, phase, run, hist>>

\* self.analysis_cache[video_url] = result["analysis"] under the lock; a cache
\* that is a list raises TypeError, which leaves analyze_single_video.
Put(w) ==
    /\ workers[w].pc = "put"
    /\ cache_lock = w
    /\ cache_lock' = 0
    /\ IF analysis_cache.kind = "dict"
       THEN /\ analysis_cache' =
                 [analysis_cache EXCEPT !.data =
                    DictSet(@, workers[w].result.video_url, workers[w].result.analysis)]
            /\ workers' = [workers EXCEPT ![w].pc = "save_acquire"]
            /\ UNCHANGED fut
       ELSE /\ Finish(w, NoResult, "raised", TRUE)
            /\ UNCHANGED analysis_cache
    /\ UNCHANGED <<retry, real, main, fetcher, analyzerVars, summary, videos, max_workers, results,
                   cache_file, phase, run, hist>>

\* Mutant of Save: a failure of the write leaves analyze_single_video as an
\* exception.
SaveFailureRaises(w) ==
    /\ workers[w].pc = "save"
    /\ cache_lock = w
    /\ cache_lock' = 0
    /\ \/ /\ cache_file' = JsonDump(analysis_cache)
          /\ UNCHANGED hist
          /\ Finish(w, workers[w].result, workers[w].path, FALSE)
       \/ /\ cache_file' \in {cache_file, CorruptFile}
          /\ hist' = [hist EXCEPT !.save_failed = TRUE]
          /\ Finish(w, NoResult, "raised", TRUE)
    /\ UNCHANGED <<retry, real, main, fetcher, analyzerVars, summary, videos, max_workers, results,
                   analysis_cache, phase, run>>

\* _save_cache under the lock: the file is rewritten; open may fail (the file
\* stays), the dump may fail after open truncated the file; both are logged.
\* Then analyze_single_video returns result.
Save(w) ==
    /\ workers[w].pc = "save"
    /\ cache_lock = w
    /\ cache_lock' = 0
    /\ \/ /\ cache_file' = JsonDump(analysis_cache)
          /\ UNCHANGED hist
       \/ /\ UNCHANGED cache_file
          /\ hist' = [hist EXCEPT !.save_failed = TRUE]
       \/ /\ cache_file' = CorruptFile
          /\ hist' = [hist EXCEPT !.save_failed = TRUE]
    /\ Finish(w, workers[w].result, workers[w].path, FALSE)
    /\ UNCHANGED <<retry, real, main, fetcher, analyzerVars, summary, videos, max_workers, results,
                   analysis_cache, phase, run>>

\* The process is killed while _save_cache writes: open(..., 'w') has truncated
\* the file and json.dump has written a part of the text, in place.  Every
\* thread and the lock die with the process.
CrashInSave(w) ==
    /\ workers[w].pc = "save"
    /\ cache_lock = w
    /\ cache_file' = CorruptFile
    /\ hist' = [hist EXCEPT !.save_failed = TRUE]
    /\ phase' = "crashed"
    /\ workers' = [v \in Threads |-> IdleWorker]
    /\ cache_lock' = 0
    /\ UNCHANGED <<retry, real, main, fetcher, analyzerVars, summary, videos, max_workers, results,
                   fut, analysis_cache, run>>

\* for future in as_completed(...): results[i] = future.result(), or videos[i]
\* when the future holds an exception.
Collect(i) ==
    /\ phase = "running"
    /\ i \in 1..Len(videos)
    /\ fut[i].state = "finished"
    /\ ~fut[i].collected
    /\ results' = [results EXCEPT ![ResultIndex(i)] =
                     IF fut[i].exception THEN Original(videos[i]) ELSE fut[i].result]
    /\ fut' = [fut EXCEPT ![i].collected = TRUE]
    /\ UNCHANGED <<retry, real, main, fetcher, analyzerVars, summary, videos, max_workers, workers,
                   analysis_cache, cache_file, cache_lock, phase, run, hist>>

\* return results
ReturnResults ==
    /\ phase = "running"
    /\ \A i \in 1..Len(videos) : fut[i].collected
    /\ phase' = "done"
    /\ UNCHANGED <<retry, real, main, fetcher, analyzerVars, summary, videos, max_workers, results,
                   fut, workers, analysis_cache, cache_file, cache_lock, run, hist>>

\* The process ends and a new one is started with the same configuration, the
\* same list and the same max_workers: __init__ loads the cache from the file.
Restart ==
    /\ phase \in {"done", "crashed"}
    /\ run + 1 \in Runs
    /\ run' = run + 1
    /\ phase' = "constructed"
    /\ analysis_cache' = LoadCache(cache_file)
    /\ hist' = [hist EXCEPT
                  !.loaded = LoadCache(cache_file),
                  !.save_failed = FALSE,
                  !.prev_computed = { i \in 1..Len(videos) : fut[i].path = "computed" },
                  !.prev_save_failed = hist.save_failed]
    /\ results' = <<>>
    /\ fut' = <<>>
    /\ UNCHANGED <<retry, real, main, fetcher, analyzerVars, summary, videos, max_workers, workers,
                   cache_file, cache_lock>>

\* The batch variables of the specifications that run no batch.
BatchIdle ==
    /\ videos = <<>>
    /\ max_workers = 1
    /\ results = <<>>
    /\ fut = <<>>
    /\ workers = [w \in Threads |-> IdleWorker]
    /\ analysis_cache = LoadCache(MissingFile)
    /\ cache_file = MissingFile
    /\ cache_lock = 0
    /\ phase = "idle"
    /\ run = 1
    /\ hist = [remote_calls |-> [u \in Ids |-> 0],
               loaded |-> LoadCache(MissingFile),
               save_failed |-> FALSE,
               prev_computed |-> {},
               prev_save_failed |-> FALSE]

(***************************************************************************)
(* generate_strategy_summary                                               *)
(***************************************************************************)

\* Longest channel list handed to generate_strategy_summary.
MaxSummaryItems == 1

\* An analysed item, an item without "analysis" (the scheduler's fallback), an
\* item whose "analysis" is no mapping (from a foreign cache file).
ItemKinds == {"analysed", "bare", "malformed"}

\* The errors the summary call meets.
SummaryErrors == { {"not found"}, {"503"}, {"502"} }

\* _mock_strategy_summary
MockStrategySummary == "placeholder_summary"

SummaryIdle ==
    [pc |-> "idle", applovin_analyses |-> <<>>, facebook_analyses |-> <<>>,
     compiled |-> <<>>, result |-> "None", coordinator_calls |-> 0]

\* The digest lines: one per item that has "analysis".
Compile(items) == SelectSeq(items, LAMBDA k : k = "analysed")

\* a.get(...) raises on an "analysis" that is no mapping.
CompileRaises(items) == \E i \in 1..Len(items) : items[i] = "malformed"

\* Mutant of SummaryExcept: the exception is logged and raised again.
SummaryExceptReraises(f) == [f EXCEPT !.pc = "raised"]

\* except Exception as e: ... return self._mock_strategy_summary()
SummaryExcept(f) == [f EXCEPT !.pc = "returned", !.result = MockStrategySummary]

\* Entry up to the call of the coordinator: the mock / empty-input guard, then
\* the digest inside the try statement.
SummaryEnter(applovin, facebook) ==
    LET f == [SummaryIdle EXCEPT !.applovin_analyses = applovin,
                                 !.facebook_analyses = facebook]
    IN  IF use_mock \/ (applovin = <<>> /\ facebook = <<>>)
        THEN [f EXCEPT !.pc = "returned", !.result = MockStrategySummary]
        ELSE IF CompileRaises(applovin) \/ CompileRaises(facebook)
        THEN SummaryExcept(f)
        ELSE [f EXCEPT !.pc = "call",
                       !.compiled = Compile(applovin) \o Compile(facebook),
                       !.coordinator_calls = @ + 1]

GenerateStrategySummary ==
    /\ summary.pc = "idle"
    /\ \E applovin \in SeqUpTo(ItemKinds, MaxSummaryItems),
          facebook \in SeqUpTo(ItemKinds, MaxSummaryItems) :
          /\ summary' = SummaryEnter(applovin, facebook)
          /\ retry' = IF summary'.pc = "call"
                      THEN RetryEnter(SummaryModels, DefaultMaxRetries)
                      ELSE retry
    /\ UNCHANGED <<real, main, fetcher, analyzerVars, batchVars>>

\* The remote calls of the coordinator on behalf of the summary.
SummaryCall ==
    /\ summary.pc = "call"
    /\ GenerateContent(SummaryErrors)
    /\ UNCHANGED <<real, main, fetcher, analyzerVars, summary, batchVars>>

\* The coordinator is back: decode and return, or the except clause.
SummaryFinish ==
    /\ summary.pc = "call"
    /\ retry.pc \in {"returned", "raised"}
    /\ summary' = IF retry.pc = "raised" \/ retry.response.body = "garbage"
                  THEN SummaryExcept(summary)
                  ELSE [summary EXCEPT !.pc = "returned", !.result = "summary"]
    /\ UNCHANGED <<retry, real, main, fetcher, analyzerVars, batchVars>>

(***************************************************************************)
(* main                                                                    *)
(***************************************************************************)

\* The exit status of the process: 0 when main returns, 1 from sys.exit(1).
ExitSuccess == 0

ExitFailure == 1

\* The process has not ended.
NotExited == -1

\* main: analyze_videos_concurrently(all_videos, max_workers=15)
MainMaxWorkers == 15

MainIdle ==
    [pc |-> "idle", exit |-> NotExited, applovin |-> 0, all_videos |-> <<>>,
     raw_archived |-> FALSE, strategy_data |-> "None", error |-> "None"]

\* The process ends with the given status.
Exit(m, status, err) == [m EXCEPT !.pc = "exited", !.exit = status, !.error = err]

\* except Exception as e: logger.exception(...); sys.exit(1)
MainExcept(m, err) == Exit(m, ExitFailure, err)

\* The parameters of ReportRenderer.render, self apart.
RenderParameters ==
    {"strategy_summary", "applovin_items", "facebook_items", "monitored_apps"}

\* The keywords main passes to renderer.render.
RenderKeywords ==
    {"strategy_summary", "applovin_items", "facebook_items", "monitored_apps",
     "output_path"}

\* Python binds the call's keywords to the parameters before the body runs:
\* a keyword that names no parameter raises TypeError (render has no **kwargs).
RenderBinds == RenderKeywords \subseteq RenderParameters

\* The lists the provider returns: every item has a video_url
\* (fetcher.py: if video_url), applovin items first.
FetchedLists == { vs \in VideoLists : \A i \in 1..Len(vs) : vs[i].video_url # "" }

\* v.get('channel') of entry i of analyzed_all: the channel main set on item i
\* of all_videos = applovin_videos + facebook_videos.
Channel(m, i) == IF i <= m.applovin THEN "applovin" ELSE "facebook"

\* What generate_strategy_summary sees of an annotated item.
KindOf(item) == IF item.analysis = Absent THEN "bare" ELSE "analysed"

\* [v for v in analyzed_all if v.get('channel') == channel], as item kinds.
Analyzed(m, channel) ==
    LET ix == { i \in 1..Len(results) : Channel(m, i) = channel }
        low == IF channel = "applovin" THEN 0 ELSE m.applovin
    IN  [k \in 1..Cardinality(ix) |-> KindOf(results[low + k])]

\* os.makedirs(archive_dir_path, exist_ok=True); the removal of a legacy cache
\* file swallows its own failure.
MainMakedirs ==
    /\ main.pc = "start"
    /\ \/ main' = [main EXCEPT !.pc = "construct"]
       \/ main' = MainExcept(main, "OSError")
    /\ UNCHANGED <<retry, real, fetcher, analyzerVars, summary, batchVars>>

\* fetcher, analyzer and renderer are constructed: VideoAnalyzer.__init__ loads
\* the cache of the week, ReportRenderer.__init__ loads the template or raises.
MainConstruct ==
    /\ main.pc = "construct"
    /\ phase = "idle"
    /\ phase' = "constructed"
    /\ analysis_cache' = LoadCache(cache_file)
    /\ hist' = [hist EXCEPT !.loaded = LoadCache(cache_file)]
    /\ \/ main' = [main EXCEPT !.pc = "fetch"]
       \/ main' = MainExcept(main, "TemplateNotFound")
    /\ UNCHANGED <<retry, real, fetcher, analyzerVars, summary, videos, max_workers, results,
                   fut, workers, cache_file, cache_lock, run>>

\* fetch_top_30_slg_videos returns the two channel lists (the provider's or the
\* fetcher's mock data, it raises nothing); with both lists empty sys.exit(1)
\* raises SystemExit, which except Exception lets through.
MainFetch ==
    /\ main.pc = "fetch"
    /\ \E vs \in FetchedLists, n \in 0..MaxItems :
         /\ n <= Len(vs)
         /\ main' = IF vs = <<>>
                    THEN Exit(main, ExitFailure, "SystemExit")
                    ELSE [main EXCEPT !.pc = "prepare", !.all_videos = vs,
                                      !.applovin = n]
    /\ UNCHANGED <<retry, real, fetcher, analyzerVars, summary, batchVars>>

\* The raw data is archived (a failure is logged), the ranks of the previous
\* week are read (a failure is logged), channel and rank change are set on
\* every item.
MainPrepare ==
    /\ main.pc = "prepare"
    /\ \E ok \in BOOLEAN :
         main' = [main EXCEPT !.pc = "analyze", !.raw_archived = ok]
    /\ UNCHANGED <<retry, real, fetcher, analyzerVars, summary, batchVars>>

\* analyzer.analyze_videos_concurrently(all_videos, max_workers=15): the pool
\* runs as many threads as it has tasks, MainMaxWorkers at most.
MainAnalyze ==
    /\ main.pc = "analyze"
    /\ AnalyzeVideosConcurrently
    /\ videos' = main.all_videos
    /\ max_workers' = IF MainMaxWorkers < Cardinality(Threads)
                      THEN MainMaxWorkers ELSE Cardinality(Threads)

\* The batch has returned: the results are split by channel and handed to
\* generate_strategy_summary.
MainSummary ==
    /\ main.pc = "analyze"
    /\ phase = "done"
    /\ main' = [main EXCEPT !.pc = "summary"]
    /\ summary' = SummaryEnter(Analyzed(main, "applovin"), Analyzed(main, "facebook"))
    /\ retry' = IF summary'.pc = "call"
                THEN RetryEnter(SummaryModels, DefaultMaxRetries)
                ELSE retry
    /\ UNCHANGED <<real, fetcher, analyzerVars, batchVars>>

\* strategic_report.get("strategy_summary", {})
StrategyData(report) ==
    IF report = MockStrategySummary THEN {"placeholder"} ELSE {"strategy", "empty"}

\* The summary is back: renderer.render is called with RenderKeywords, then
\* GITHUB_ENV is appended to when it is set, and main returns; an exception of
\* any of these reaches except Exception.
MainRender ==
    /\ main.pc = "summary"
    /\ summary.pc = "returned"
    /\ \E d \in StrategyData(summary.result) :
         LET m == [main EXCEPT !.strategy_data = d]
         IN  \/ ~RenderBinds /\ main' = MainExcept(m, "TypeError")
             \/ RenderBinds /\ main' = MainExcept(m, "render")
             \/ RenderBinds /\ main' = MainExcept(m, "GITHUB_ENV")
             \/ RenderBinds /\ main' = Exit(m, ExitSuccess, "None")
    /\ UNCHANGED <<retry, real, fetcher, analyzerVars, summary, batchVars>>

(***************************************************************************)
(* SpecSummary: one invocation of generate_strategy_summary                *)
(***************************************************************************)

InitSummary ==
    /\ main = MainIdle
    /\ fetcher = FetcherIdle
    /\ BatchIdle
    /\ retry = RetryIdle
    /\ real = RealIdle
    /\ Constructed
    /\ summary = SummaryIdle

NextSummary ==
    \/ GenerateStrategySummary
    \/ SummaryCall
    \/ SummaryFinish

SpecSummary == InitSummary /\ [][NextSummary]_vars

(***************************************************************************)
(* SpecReal: one invocation of _real_single_analysis                       *)
(***************************************************************************)

InitReal ==
    /\ main = MainIdle
    /\ fetcher = FetcherIdle
    /\ BatchIdle
    /\ retry = RetryIdle
    /\ RealMode
    /\ summary = SummaryIdle
    /\ \E u \in {"", "u1"} : real = RealEnter(u)

NextReal ==
    \/ Fetch
    \/ WriteTemp
    \/ Upload
    \/ Poll
    \/ StartInference
    \/ InferCall
    \/ Decode
    \/ ReleaseRemote
    \/ ReleaseLocal

SpecReal == InitReal /\ [][NextReal]_vars

(***************************************************************************)
(* SpecRetry: the retry coordinator called with either candidate list      *)
(***************************************************************************)

RetryCall ==
    /\ GenerateContent(AllErrors)
    /\ UNCHANGED <<real, main, fetcher, analyzerVars, summary, batchVars>>

InitRetry ==
    /\ main = MainIdle
    /\ fetcher = FetcherIdle
    /\ BatchIdle
    /\ real = RealIdle
    /\ RealMode
    /\ summary = SummaryIdle
    /\ \E models \in {AnalysisModels, SummaryModels} :
        retry = RetryEnter(models, DefaultMaxRetries)

NextRetry == RetryCall

SpecRetry == InitRetry /\ [][NextRetry]_vars

(***************************************************************************)
(* SpecRetryArgs: _call_api_with_retry for every max_retries from 0 to the *)
(* default and every candidate list, the empty one included                *)
(***************************************************************************)

\* The values of the parameter max_retries.
MaxRetriesValues == 0..DefaultMaxRetries

\* The values of the parameter models_to_try.
CandidateLists == {<<>>, <<"gemini-2.5-flash">>, AnalysisModels, SummaryModels}

InitRetryArgs ==
    /\ main = MainIdle
    /\ fetcher = FetcherIdle
    /\ BatchIdle
    /\ real = RealIdle
    /\ RealMode
    /\ summary = SummaryIdle
    /\ \E models \in CandidateLists, max \in MaxRetriesValues :
        retry = RetryEnter(models, max)

SpecRetryArgs == InitRetryArgs /\ [][NextRetry]_vars

(***************************************************************************)
(* SpecFetch: one call of _fetch_top_for_network                           *)
(***************************************************************************)

InitFetch ==
    /\ main = MainIdle
    /\ BatchIdle
    /\ retry = RetryIdle
    /\ real = RealIdle
    /\ RealMode
    /\ summary = SummaryIdle
    /\ fetcher = FetcherEnter

NextFetch ==
    \/ RequestPage
    \/ ReadUnit
    \/ EndPage
    \/ Finalize

SpecFetch == InitFetch /\ [][NextFetch]_vars

(***************************************************************************)
(* Spec: runs of analyze_videos_concurrently over one cache file           *)
(***************************************************************************)

\* main: USE_MOCK = False
USE_MOCK == FALSE

\* The cache files the first run may find.
InitialFiles ==
    { MissingFile,
      [kind |-> "list", data |-> EmptyMap],
      [kind |-> "dict", data |-> [u \in {"A2"} |-> OldGenuine]] }

Init ==
    /\ main = MainIdle
    /\ fetcher = FetcherIdle
    /\ retry = RetryIdle
    /\ real = RealIdle
    /\ summary = SummaryIdle
    /\ Constructed
    /\ env.use_mock = USE_MOCK
    /\ videos = <<>>
    /\ max_workers = 1
    /\ results = <<>>
    /\ fut = <<>>
    /\ workers = [w \in Threads |-> IdleWorker]
    /\ cache_file \in InitialFiles
    /\ analysis_cache = LoadCache(cache_file)
    /\ cache_lock = 0
    /\ phase = "constructed"
    /\ run = 1
    /\ hist = [remote_calls |-> [u \in Ids |-> 0],
               loaded |-> LoadCache(cache_file),
               save_failed |-> FALSE,
               prev_computed |-> {},
               prev_save_failed |-> FALSE]

Next ==
    \/ AnalyzeVideosConcurrently
    \/ \E w \in Threads : TakeTask(w)
    \/ \E w \in Threads : Acquire(w)
    \/ \E w \in Threads : Lookup(w)
    \/ \E w \in Threads : Analyze(w)
    \/ \E w \in Threads : Put(w)
    \/ \E w \in Threads : Save(w)
    \/ \E w \in Threads : CrashInSave(w)
    \/ \E i \in 1..MaxItems : Collect(i)
    \/ ReturnResults
    \/ Restart

Spec == Init /\ [][Next]_vars

(***************************************************************************)
(* SpecLive: one batch whose process is not killed, with the threads       *)
(* scheduled fairly.  A thread of the pool that can take a step eventually *)
(* takes one: the operating system runs every runnable thread, a remote    *)
(* call returns or fails (the step Analyze), and a thread blocked on the   *)
(* lock is runnable again when the lock is free.                           *)
(***************************************************************************)

\* One thread of the ThreadPoolExecutor running analyze_single_video.
Worker(w) ==
    \/ TakeTask(w)
    \/ Acquire(w)
    \/ Lookup(w)
    \/ Analyze(w)
    \/ Put(w)
    \/ Save(w)

\* The thread that called analyze_videos_concurrently.
Scheduler ==
    \/ AnalyzeVideosConcurrently
    \/ \E i \in 1..MaxItems : Collect(i)
    \/ ReturnResults

NextLive ==
    \/ \E w \in Threads : Worker(w)
    \/ Scheduler

Fairness ==
    /\ \A w \in Threads : WF_vars(Worker(w))
    /\ WF_vars(Scheduler)

SpecLive == Init /\ [][NextLive]_vars /\ Fairness

(***************************************************************************)
(* SpecMain: one run of main                                               *)
(***************************************************************************)

InitMain ==
    /\ main = [MainIdle EXCEPT !.pc = "start"]
    /\ fetcher = FetcherIdle
    /\ retry = RetryIdle
    /\ real = RealIdle
    /\ summary = SummaryIdle
    /\ Constructed
    /\ env.use_mock = USE_MOCK
    /\ videos = <<>>
    /\ max_workers = 1
    /\ results = <<>>
    /\ fut = <<>>
    /\ workers = [w \in Threads |-> IdleWorker]
    /\ cache_file \in InitialFiles
    /\ analysis_cache = LoadCache(MissingFile)
    /\ cache_lock = 0
    /\ phase = "idle"
    /\ run = 1
    /\ hist = [remote_calls |-> [u \in Ids |-> 0],
               loaded |-> LoadCache(MissingFile),
               save_failed |-> FALSE,
               prev_computed |-> {},
               prev_save_failed |-> FALSE]

NextMain ==
    \/ MainMakedirs
    \/ MainConstruct
    \/ MainFetch
    \/ MainPrepare
    \/ MainAnalyze
    \/ \E w \in Threads : TakeTask(w)
    \/ \E w \in Threads : Acquire(w)
    \/ \E w \in Threads : Lookup(w)
    \/ \E w \in Threads : Analyze(w)
    \/ \E w \in Threads : Put(w)
    \/ \E w \in Threads : Save(w)
    \/ \E i \in 1..MaxItems : Collect(i)
    \/ ReturnResults
    \/ MainSummary
    \/ SummaryCall
    \/ SummaryFinish
    \/ MainRender

SpecMain == InitMain /\ [][NextMain]_vars

(***************************************************************************)
(* Claims about the batch (Spec)                                           *)
(***************************************************************************)

Indices == 1..Len(videos)

Occurrences(u) == Cardinality({ i \in Indices : videos[i].video_url = u })

\* C1: analyze_videos_concurrently returns one entry per input item, entry i
\* being the result for input item i (same video_url, same rank) and none left
\* None, whatever the order in which the workers completed.
C1_OrderPreserved ==
    phase = "done" =>
        /\ Len(results) = Len(videos)
        /\ \A i \in Indices :
             /\ results[i] # NoResult
             /\ results[i].video_url = videos[i].video_url
             /\ results[i].rank = videos[i].rank

\* Item 2 completed before item 1 looked the cache up: item 1 carries the
\* annotation computed for item 2.
C1_Witness ==
    /\ phase = "done"
    /\ max_workers = 2
    /\ Len(videos) = 2
    /\ results[1].rank = 1
    /\ results[1].analysis = Genuine(1, 2)
    /\ results[2].analysis = Genuine(1, 2)

\* C2: when the remote annotation fails for item k, the batch still returns
\* every item, item k carries the placeholder, and no other item is affected:
\* an item whose own remote path did not fail does not carry the placeholder.
C2_DegradationContainment ==
    (phase = "done" /\ ~use_mock) =>
        \A k \in Indices :
            fut[k].path = "degraded" =>
                /\ Len(results) = Len(videos)
                /\ results[k].analysis = Placeholder
                /\ \A j \in Indices \ {k} :
                     fut[j].path # "degraded" => results[j].analysis # Placeholder

\* C3: after a batch the cache holds the entries it was loaded with,
\* unchanged, plus one entry for each identity whose remote annotation
\* succeeded, and no entry for an identity whose remote annotation failed.
C3_DegradedNeverCached ==
    (phase = "done" /\ ~use_mock /\ analysis_cache.kind = "dict") =>
        \A u \in Ids :
            LET computed == { i \in Indices : videos[i].video_url = u
                                              /\ fut[i].path = "computed" }
                loaded == hist.loaded.data
            IN  /\ u \in DOMAIN loaded =>
                     InCache(u) /\ analysis_cache.data[u] = loaded[u]
                /\ (u \notin DOMAIN loaded /\ computed # {}) =>
                     /\ InCache(u)
                     /\ \E i \in computed : analysis_cache.data[u] = Genuine(run, i)
                /\ (u \notin DOMAIN loaded /\ computed = {}) => ~InCache(u)

\* C4: an identity that occurs once in the list, missed the cache in the first
\* run and was annotated remotely, every persist of that run succeeding: over
\* both runs one remote annotation call is made for it, and the second run
\* returns the first run's annotation from the cache.
C4_CacheIdempotence ==
    run = 2 =>
        \A i \in Indices :
            LET u == videos[i].video_url
            IN  (i \in hist.prev_computed /\ ~hist.prev_save_failed
                   /\ Occurrences(u) = 1) =>
                    /\ hist.remote_calls[u] = 1
                    /\ (i \in DOMAIN fut /\ fut[i].state = "finished") =>
                         /\ fut[i].path = "hit"
                         /\ ~fut[i].exception
                         /\ fut[i].result.analysis = Genuine(1, i)
                    /\ phase = "done" => results[i].analysis = Genuine(1, i)

C4_Witness ==
    /\ run = 2
    /\ phase = "done"
    /\ \E i \in Indices :
         /\ i \in hist.prev_computed
         /\ ~hist.prev_save_failed
         /\ Occurrences(videos[i].video_url) = 1
         /\ results[i].analysis = Genuine(1, i)
         /\ hist.remote_calls[videos[i].video_url] = 1

\* The threads that are running analyze_single_video.
Busy == { w \in Threads : workers[w].pc # "idle" }

\* C24: while a batch runs, at most max_workers threads are in
\* analyze_single_video, the items being processed are exactly the items held
\* by these threads, one thread per item; an item is handed to a thread only
\* while it is pending, which it never is again, and only to a thread that is
\* idle; when the batch has returned every item has been processed.
C24_BoundedDispatch ==
    /\ [](phase = "running" =>
            /\ Cardinality(Busy) <= max_workers
            /\ \A w \in Busy : workers[w].i \in Indices /\ fut[workers[w].i].state = "running"
            /\ \A v, w \in Busy : workers[v].i = workers[w].i => v = w
            /\ \A i \in Indices :
                 fut[i].state = "running" => \E w \in Busy : workers[w].i = i)
    /\ [](phase = "done" => \A i \in Indices : fut[i].state = "finished")
    /\ [][phase = "running" /\ phase' = "running" =>
            /\ \A i \in Indices :
                 /\ fut[i].state # "pending" => fut'[i].state # "pending"
                 /\ fut[i].state = "finished" => fut'[i].state = "finished"
            /\ \A w \in Threads :
                 (workers'[w].pc # "idle" /\ workers'[w].i # workers[w].i) =>
                     /\ workers[w].pc = "idle"
                     /\ fut[workers'[w].i].state = "pending"]_vars

\* One thread for two items: the second item is taken after the first has
\* finished.
C24_Witness ==
    /\ phase = "running"
    /\ max_workers = 1
    /\ Len(videos) = 2
    /\ fut[1].state = "finished"
    /\ workers[1].pc = "analyze"
    /\ workers[1].i = 2
    /\ workers[2].pc = "idle"

\* The items of identity u that went to the remote annotation.
Callers(u) ==
    { i \in Indices : videos[i].video_url = u /\ fut[i].path \in {"computed", "degraded"} }

\* First runs in real mode over a mapping that did not hold u when loaded.
FreshIdentity(u) ==
    /\ run = 1
    /\ ~use_mock
    /\ analysis_cache.kind = "dict"
    /\ u \notin DOMAIN hist.loaded.data

\* C25 (as claimed): every item of an identity that was not cached before the
\* run makes its own remote annotation call, whatever max_workers is and
\* however the threads are scheduled.
C25_DuplicatesEachComputed ==
    \A u \in Ids :
        (phase = "done" /\ FreshIdentity(u)) => hist.remote_calls[u] = Occurrences(u)

\* C25: items of one identity are not held back for one another, nor is any
\* computed when the entry is there: an item makes a remote call exactly when
\* its lookup precedes every insert for the identity.  After the batch the
\* identity has had at least one remote call and at most one per occurrence,
\* exactly one when max_workers is 1; the items that made no call carry the
\* annotation one of the callers inserted; every insert overwrites the entry,
\* so the entry left is one inserted by a caller, the last.
C25_DuplicatesRaceForCache ==
    /\ [](\A u \in Ids :
            (phase = "done" /\ FreshIdentity(u) /\ Occurrences(u) >= 1) =>
                /\ hist.remote_calls[u] = Cardinality(Callers(u))
                /\ hist.remote_calls[u] >= 1
                /\ hist.remote_calls[u] <= Occurrences(u)
                /\ max_workers = 1 => hist.remote_calls[u] = 1
                /\ u \in DOMAIN analysis_cache.data
                /\ \E j \in Callers(u) : analysis_cache.data[u] = results[j].analysis
                /\ \A i \in Indices :
                     (videos[i].video_url = u /\ i \notin Callers(u)) =>
                         /\ fut[i].path = "hit"
                         /\ \E j \in Callers(u) : results[i].analysis = results[j].analysis)
    /\ [][\A w \in Threads :
            (workers[w].pc = "put" /\ workers'[w].pc = "save_acquire") =>
                /\ workers[w].result.video_url \in DOMAIN analysis_cache'.data
                /\ analysis_cache'.data[workers[w].result.video_url] =
                     workers[w].result.analysis]_vars

\* Two items of one identity on two threads: both missed the cache and made
\* their own remote call; item 1 inserted last, the entry left is its
\* annotation.
C25_Witness ==
    /\ phase = "done"
    /\ run = 1
    /\ max_workers = 2
    /\ Len(videos) = 2
    /\ videos[1].video_url \in Ids
    /\ videos[1].video_url = videos[2].video_url
    /\ hist.remote_calls[videos[1].video_url] = 2
    /\ results[1].analysis = Genuine(1, 1)
    /\ results[2].analysis = Genuine(1, 2)
    /\ analysis_cache.data[videos[1].video_url] = Genuine(1, 1)

\* C26: a thread waiting for the cache lock does not hold it, the lock is
\* held only inside the three critical sections and by the thread that is in
\* one, every critical section releases it when it is left (the early return
\* on a cache hit included), and it is not held during the remote annotation
\* with its backoff sleeps.  Hence, when every remote call returns or fails,
\* every thread finishes its items and the batch returns.
C26_DeadlockFreedom ==
    /\ [](\A w \in Threads :
            /\ workers[w].pc \in {"lookup_acquire", "put_acquire", "save_acquire"} =>
                   cache_lock # w
            /\ workers[w].pc \in {"idle", "analyze"} => cache_lock # w
            /\ cache_lock = w => workers[w].pc \in {"lookup", "put", "save"})
    /\ [][\A w \in Threads :
            (cache_lock = w /\ workers'[w] # workers[w]) => cache_lock' = 0]_vars
    /\ (phase = "running") ~> (phase = "done" /\ cache_lock = 0
                               /\ \A w \in Threads : workers[w].pc = "idle")

\* A batch of two items on two threads has returned: one item left through the
\* early return of a cache hit, the other went through the remote annotation,
\* the insert and the persist; no thread holds the lock.
C26_Witness ==
    /\ phase = "done"
    /\ max_workers = 2
    /\ Len(videos) = 2
    /\ fut[1].path = "hit"
    /\ fut[2].path = "computed"
    /\ cache_lock = 0
    /\ \A w \in Threads : workers[w].pc = "idle"

\* The items of the batch whose annotation was inserted into the cache.
Inserted ==
    { i \in Indices : /\ videos[i].video_url # ""
                      /\ fut[i].state = "finished"
                      /\ ~fut[i].exception
                      /\ fut[i].path # "hit" }

\* C27: once every thread of a batch has finished and no persist of the run
\* failed, the cache file holds the complete in-memory mapping: when an insert
\* was made the file is the dump of the mapping, every inserted identity is in
\* it with the value the mapping has, and in every case loading the file
\* gives the mapping.
C27_PersistedConverges ==
    (phase = "done" /\ ~hist.save_failed) =>
        /\ LoadCache(cache_file) = analysis_cache
        /\ Inserted # {} =>
             /\ cache_file.kind = "dict"
             /\ cache_file.data = analysis_cache.data
             /\ \A i \in Inserted :
                  /\ videos[i].video_url \in DOMAIN cache_file.data
                  /\ cache_file.data[videos[i].video_url] =
                       analysis_cache.data[videos[i].video_url]

\* Two threads inserted and persisted two identities in one batch, the file
\* existed before with another content; the file now holds both inserts.
C27_Witness ==
    /\ phase = "done"
    /\ ~hist.save_failed
    /\ max_workers = 2
    /\ Inserted = {1, 2}
    /\ videos[1].video_url # videos[2].video_url
    /\ hist.loaded.kind = "dict"
    /\ cache_file # hist.loaded
    /\ {videos[1].video_url, videos[2].video_url} \subseteq DOMAIN cache_file.data

\* The tag that names the path by which an annotation was obtained.
StatusOfPath(path) ==
    CASE path = "hit" -> "cached"
      [] path = "computed" -> "computed"
      [] OTHER -> "degraded"

\* C12: a process crash during a persist leaves a cache file that still
\* decodes to a complete mapping holding every key the file held before the
\* persist began.
C12_PersistNeverPartial ==
    [][(phase' = "crashed" /\ phase # "crashed" /\ cache_file.kind = "dict") =>
          /\ cache_file'.kind = "dict"
          /\ \A u \in DOMAIN cache_file.data : u \in DOMAIN cache_file'.data]_vars

\* C13 (as claimed): when running item i raised out of the worker, output
\* entry i is a degraded item carrying the placeholder annotation, so that
\* every entry of the output has an annotation.
C13_FallbackIsDegraded ==
    phase = "done" =>
        \A i \in Indices :
            fut[i].exception => results[i].analysis = Placeholder

\* C13: when running item i raised out of the worker, the scheduler stores the
\* input item itself at index i, with no annotation; the output has one entry
\* per input item and every other entry is the result its worker returned,
\* which carries an annotation.
C13_SchedulerFallback ==
    phase = "done" =>
        /\ Len(results) = Len(videos)
        /\ \A i \in Indices :
             IF fut[i].exception
             THEN results[i] = WithAnalysis(videos[i], Absent)
             ELSE /\ results[i] = fut[i].result
                  /\ results[i].analysis # Absent

\* Item 1 raised in the cache insert, item 2 (no video_url) was returned by
\* its worker.
C13_Witness ==
    /\ phase = "done"
    /\ Len(videos) = 2
    /\ fut[1].exception
    /\ results[1] = WithAnalysis(videos[1], Absent)
    /\ ~fut[2].exception
    /\ results[2].analysis = Placeholder

\* C14: main ends with the success status when the provider returned at least
\* one item, whatever failed in the annotations, the summary or the cache
\* persistence (and the report could be written); it ends with the failure
\* status when no item was retrieved.
C14_ExitStatus ==
    main.pc = "exited" =>
        /\ (main.all_videos = <<>> /\ main.error = "SystemExit") =>
               main.exit = ExitFailure
        /\ (main.all_videos # <<>> /\ main.error \notin {"render", "GITHUB_ENV"}) =>
               main.exit = ExitSuccess

\* The threads inside a cache lookup, a cache insert or a cache persist.
InCritical == { w \in Threads : workers[w].pc \in {"lookup", "put", "save"} }

\* C19: at no time are two threads inside a cache lookup, insert or persist
\* (the one inside holds the lock); and whenever a persist completes, the file
\* content is the whole in-memory mapping of that instant, which no other
\* thread is changing.
C19_CacheMutualExclusion ==
    /\ [](/\ Cardinality(InCritical) <= 1
          /\ \A w \in InCritical : cache_lock = w
          /\ cache_lock # 0 => cache_lock \in InCritical)
    /\ [][(cache_file' # cache_file /\ cache_file' # CorruptFile) =>
            /\ cache_file' = JsonDump(analysis_cache)
            /\ analysis_cache' = analysis_cache
            /\ \E w \in Threads : InCritical = {w} /\ workers[w].pc = "save"]_vars

\* Thread 1 persists a mapping of two entries while thread 2 waits for the
\* lock to persist.
C19_Witness ==
    /\ workers[1].pc = "save"
    /\ cache_lock = 1
    /\ workers[2].pc = "save_acquire"
    /\ analysis_cache.kind = "dict"
    /\ Cardinality(DOMAIN analysis_cache.data) = 2

\* Thread w leaves _save_cache without the file holding the mapping: the
\* write failed (the process going on).
PersistFails(w) ==
    /\ workers[w].pc = "save"
    /\ workers'[w].pc # "save"
    /\ phase' = phase
    /\ cache_file' # JsonDump(analysis_cache)

\* C20: when a persist fails, the thread that ran it still returns the result
\* it computed, the in-memory cache keeps the entry (it never loses one during
\* a run, and a lookup of a cached identity is a hit), and no other thread,
\* no other future and not the batch are touched.
C20_PersistFailureSwallowed ==
    [][/\ \A w \in Threads :
            PersistFails(w) =>
                LET i == workers[w].i
                IN  /\ fut'[i].state = "finished"
                    /\ ~fut'[i].exception
                    /\ fut'[i].result = workers[w].result
                    /\ fut'[i].result.analysis # Absent
                    /\ analysis_cache' = analysis_cache
                    /\ InCache(videos[i].video_url)
                    /\ \A j \in DOMAIN fut \ {i} : fut'[j] = fut[j]
                    /\ \A v \in Threads \ {w} : workers'[v] = workers[v]
                    /\ results' = results
                    /\ phase = "running"
       /\ (run' = run /\ analysis_cache.kind = "dict") =>
              /\ analysis_cache'.kind = "dict"
              /\ \A u \in Ids : InCache(u) => u \in DOMAIN analysis_cache'.data
       /\ \A w \in Threads :
            (workers[w].pc = "lookup" /\ workers'[w].pc # "lookup"
               /\ InCache(videos[workers[w].i].video_url)) =>
                fut'[workers[w].i].path = "hit"]_vars

\* The persist after item 1 failed (the file is still missing); item 1 was
\* returned with the annotation computed for it, item 2, of the same identity,
\* was then served from the in-memory cache, and the batch returned.
C20_Witness ==
    /\ phase = "done"
    /\ run = 1
    /\ Len(videos) = 2
    /\ hist.save_failed
    /\ cache_file = MissingFile
    /\ fut[1].path = "computed"
    /\ results[1].analysis = Genuine(1, 1)
    /\ fut[2].path = "hit"
    /\ results[2].analysis = Genuine(1, 1)
    /\ InCache(videos[1].video_url)

\* C11: every item a worker returns in real mode carries a status field whose
\* value is cached, computed or degraded and names the path by which its
\* annotation was obtained.
C11_StatusTag ==
    ~use_mock =>
        \A i \in DOMAIN fut :
            (fut[i].state = "finished" /\ ~fut[i].exception) =>
                /\ "status" \in DOMAIN fut[i].result
                /\ fut[i].result.status = StatusOfPath(fut[i].path)

(***************************************************************************)
(* Claims about the retry coordinator (SpecRetry)                          *)
(***************************************************************************)

calls == retry.calls

AllCallsFailed == \A i \in 1..Len(calls) : ~calls[i].ok

\* The scenario of C5: the first two remote calls raise a rate-limit error,
\* the third one returns.
TwoRateLimitsThenSuccess ==
    /\ Len(calls) >= 3
    /\ calls[1].error = {"429"}
    /\ calls[2].error = {"429"}
    /\ calls[3].ok

\* C5: two rate-limit failures followed by a success: exactly three remote
\* calls, all to the first candidate, exactly two sleeps, of 2 then 4
\* time-units (the second strictly longer), and the third call's response is
\* what the coordinator returns.
C5_BackoffOrdering ==
    TwoRateLimitsThenSuccess =>
        /\ retry.pc = "returned"
        /\ Len(calls) = 3
        /\ \A i \in 1..3 : calls[i].model = retry.models_to_try[1]
        /\ retry.sleeps = <<2, 4>>
        /\ retry.sleeps[2] > retry.sleeps[1]
        /\ retry.response = [model |-> retry.models_to_try[1], body |-> calls[3].body]

C5_Witness ==
    /\ TwoRateLimitsThenSuccess
    /\ retry.pc = "returned"
    /\ Len(retry.sleeps) = 2

\* C6: a not-found failure on the first candidate A is followed by a call to
\* the next candidate B in the same outer round and with no sleep in between;
\* when B succeeds the coordinator returns B's response.
C6_ModelFallback ==
    \A n \in 1..(Len(calls) - 1) :
        (~calls[n].ok /\ IsNotFound(calls[n].error)
           /\ calls[n].model = retry.models_to_try[1]) =>
            /\ calls[n + 1].model = retry.models_to_try[2]
            /\ calls[n + 1].attempt = calls[n].attempt
            /\ calls[n + 1].slept = calls[n].slept
            /\ calls[n + 1].ok =>
                 /\ retry.pc = "returned"
                 /\ retry.response = [model |-> retry.models_to_try[2],
                                      body |-> calls[n + 1].body]

C6_Witness ==
    /\ Len(calls) = 2
    /\ calls[1].error = {"404"}
    /\ calls[2].ok
    /\ retry.pc = "returned"
    /\ retry.sleeps = <<>>
    /\ retry.response.model = retry.models_to_try[2]

\* C10: the coordinator raises exactly when every remote call it made failed
\* and range(max_retries) is used up; the error it raises with is that of the
\* last remote call; a response is returned only from the call that succeeded,
\* which is the last one made.
C10_Exhaustion ==
    /\ retry.pc = "raised" <=> (AllCallsFailed /\ retry.attempt >= retry.max_retries)
    /\ retry.pc = "raised" =>
         /\ retry.response = NoResponse
         /\ retry.last_error = IF calls = <<>> THEN None ELSE calls[Len(calls)].error
         /\ retry.models_to_try # <<>> =>
              \A a \in 0..(retry.max_retries - 1) :
                  \E i \in 1..Len(calls) : calls[i].attempt = a
    /\ retry.pc = "returned" =>
         /\ calls # <<>>
         /\ calls[Len(calls)].ok
         /\ \A i \in 1..(Len(calls) - 1) : ~calls[i].ok
         /\ retry.response = [model |-> calls[Len(calls)].model,
                              body |-> calls[Len(calls)].body]
    /\ retry.pc # "returned" => retry.response = NoResponse

C10_Witness ==
    /\ retry.pc = "raised"
    /\ Len(calls) = DefaultMaxRetries * Len(retry.models_to_try)
    /\ calls[1].error = {"404"}
    /\ retry.last_error = {"429"}

\* The position in models_to_try of the model of call n.
ModelIx(n) ==
    CHOOSE k \in 1..Len(retry.models_to_try) : retry.models_to_try[k] = calls[n].model

\* After call n the coordinator slept once and ended the round: what follows
\* is the first candidate of the next round, or nothing when no round is left.
EndsRoundAfter(n) ==
    IF n < Len(calls)
    THEN /\ calls[n + 1].model = retry.models_to_try[1]
         /\ calls[n + 1].attempt = calls[n].attempt + 1
         /\ calls[n + 1].slept = calls[n].slept + 1
    ELSE /\ Len(retry.sleeps) = calls[n].slept + 1
         /\ retry.attempt = calls[n].attempt + 1
         /\ retry.pc \in {"call", "raised"}
         /\ retry.pc = "call" => retry.model_ix = 1

\* After call n the coordinator went on without sleeping: to the next
\* candidate of the round, from the last candidate to the first candidate of
\* the next round, and to the raise when no round is left.
ContinuesAfter(n) ==
    LET last == ModelIx(n) = Len(retry.models_to_try)
        final == calls[n].attempt = retry.max_retries - 1
    IN  IF n < Len(calls)
        THEN /\ calls[n + 1].slept = calls[n].slept
             /\ ~(last /\ final)
             /\ IF last
                THEN /\ calls[n + 1].model = retry.models_to_try[1]
                     /\ calls[n + 1].attempt = calls[n].attempt + 1
                ELSE /\ calls[n + 1].model = retry.models_to_try[ModelIx(n) + 1]
                     /\ calls[n + 1].attempt = calls[n].attempt
        ELSE /\ Len(retry.sleeps) = calls[n].slept
             /\ IF last /\ final
                THEN retry.pc = "raised"
                ELSE /\ retry.pc = "call"
                     /\ retry.attempt = calls[n].attempt + (IF last THEN 1 ELSE 0)
                     /\ retry.model_ix = IF last THEN 1 ELSE ModelIx(n) + 1

\* C15 (as claimed): a rate-limit failure in any outer round makes the
\* coordinator sleep once and end the round without calling the remaining
\* candidates; the next call, if any, is to the first candidate of the next
\* round.
C15_RateLimitEndsAnyRound ==
    \A n \in 1..Len(calls) :
        (~calls[n].ok /\ calls[n].error = {"429"}) => EndsRoundAfter(n)

\* C15: a failure whose text holds "429" and neither "404" nor "not found", in
\* an outer round that is not the last: one sleep, the round ends, the next
\* call is to the first candidate of the next round.  In the last round there
\* is no sleep and the coordinator goes on to the next candidate of the round,
\* or raises when there is none.
C15_RateLimitBackoff ==
    \A n \in 1..Len(calls) :
        (~calls[n].ok /\ "429" \in calls[n].error /\ ~IsNotFound(calls[n].error)) =>
            IF calls[n].attempt < retry.max_retries - 1
            THEN EndsRoundAfter(n)
            ELSE ContinuesAfter(n)

\* A rate-limit failure in the first round, followed by the first candidate in
\* the second round; a rate-limit failure on the first candidate in the last
\* round, followed by the second candidate in that round.
C15_Witness ==
    /\ Len(calls) >= 4
    /\ calls[1].error = {"429"}
    /\ calls[2].attempt = 1
    /\ calls[2].model = retry.models_to_try[1]
    /\ \E n \in 2..(Len(calls) - 1) :
         /\ calls[n].error = {"429"}
         /\ calls[n].attempt = retry.max_retries - 1
         /\ calls[n + 1].attempt = calls[n].attempt
         /\ calls[n + 1].model = retry.models_to_try[2]
         /\ calls[n + 1].slept = calls[n].slept

\* Call n was followed by a sleep.
SleptAfter(n) ==
    IF n < Len(calls)
    THEN calls[n + 1].slept = calls[n].slept + 1
    ELSE Len(retry.sleeps) = calls[n].slept + 1

\* C16 (as claimed): a backoff taken in outer round r sleeps 2 * 2^r
\* time-units, whatever failures came before.
C16_DelayDoublesPerRound ==
    \A n \in 1..Len(calls) :
        SleptAfter(n) =>
            retry.sleeps[calls[n].slept + 1] = InitialRetryDelay * 2 ^ calls[n].attempt

\* C16: the delay is seeded at 2 time-units and doubles with each backoff
\* taken: the k-th sleep of an invocation (k = 1, 2, ...) lasts 2 * 2^(k - 1)
\* time-units; a backoff taken in outer round r sleeps at most 2 * 2^r, and
\* exactly that when every earlier round ended in a backoff.
C16_DelayDoublesPerBackoff ==
    /\ \A k \in 1..Len(retry.sleeps) :
         retry.sleeps[k] = InitialRetryDelay * 2 ^ (k - 1)
    /\ \A n \in 1..Len(calls) :
         SleptAfter(n) =>
             /\ calls[n].slept <= calls[n].attempt
             /\ retry.sleeps[calls[n].slept + 1] <= InitialRetryDelay * 2 ^ calls[n].attempt
             /\ calls[n].slept = calls[n].attempt =>
                  retry.sleeps[calls[n].slept + 1] = InitialRetryDelay * 2 ^ calls[n].attempt

\* The first round ended without a backoff (both candidates failed with an
\* error of no class); the backoff of the second round sleeps 2 time-units.
C16_Witness ==
    /\ Len(calls) = 3
    /\ calls[1].error = {"400"}
    /\ calls[2].error = {"400"}
    /\ calls[3].error = {"429"}
    /\ calls[3].attempt = 1
    /\ retry.sleeps = <<InitialRetryDelay>>

\* Error texts of the 5xx class.
ServerErrors5xx == { {"500"}, {"502"}, {"503"} }

\* The outcomes met so far, every rate-limit failure replaced by the error T.
Substitute(T) ==
    [n \in 1..Len(calls) |->
        IF ~calls[n].ok /\ calls[n].error = {"429"}
        THEN [calls[n] EXCEPT !.error = T]
        ELSE calls[n]]

ModelsTried(r) == [n \in 1..Len(r.calls) |-> r.calls[n].model]

\* C17: whatever the outcomes of the remote calls, replacing every rate-limit
\* failure among them by a failure of the 5xx class gives the same sequence of
\* models tried and the same sequence of sleeps.
C17_ServerErrorLikeRateLimit ==
    \A T \in ServerErrors5xx :
        LET r2 == Replay(RetryEnter(retry.models_to_try, retry.max_retries),
                         Substitute(T), 1)
        IN  /\ ModelsTried(r2) = ModelsTried(retry)
            /\ r2.sleeps = retry.sleeps

\* The same with the two codes the code tests for; and replaying the outcomes
\* unchanged gives the frame itself.
C17_Only500And503 ==
    /\ Replay(RetryEnter(retry.models_to_try, retry.max_retries), calls, 1) = retry
    /\ \A T \in { {"500"}, {"503"} } :
        LET r2 == Replay(RetryEnter(retry.models_to_try, retry.max_retries),
                         Substitute(T), 1)
        IN  /\ ModelsTried(r2) = ModelsTried(retry)
            /\ r2.sleeps = retry.sleeps

\* An error text of none of the classes not-found, rate-limit, 5xx.
Unclassified(e) == e \cap {"404", "not found", "429", "500", "502", "503"} = {}

\* C18: after a failure that is neither not-found, rate-limit nor of the 5xx
\* class the coordinator does not sleep; its next call is to the next
\* candidate of the same round, from the last candidate to the first
\* candidate of the next round, and it raises when no round is left.
C18_OtherFailureFallsThrough ==
    \A n \in 1..Len(calls) :
        (~calls[n].ok /\ Unclassified(calls[n].error)) => ContinuesAfter(n)

\* Every call failed with an unclassified error: the candidates were tried in
\* turn in every round, nothing was slept, the coordinator raised.
C18_Witness ==
    /\ retry.pc = "raised"
    /\ \A n \in 1..Len(calls) : calls[n].error = {"400"}
    /\ Len(calls) = retry.max_retries * Len(retry.models_to_try)
    /\ calls[2].attempt = 0
    /\ calls[2].model = retry.models_to_try[2]
    /\ calls[3].attempt = 1
    /\ calls[3].model = retry.models_to_try[1]
    /\ retry.sleeps = <<>>

\* C28: for every max_retries and every candidate list the function makes at
\* most max_retries * len(models_to_try) remote calls and at most
\* max_retries - 1 sleeps, every pass through the try statement is one remote
\* call more (so it ends), a successful call is the last one, and with an
\* empty list or max_retries = 0 it raises without any remote call.
C28_RetryTerminates ==
    /\ [](/\ Len(calls) <= retry.max_retries * Len(retry.models_to_try)
          /\ Len(retry.sleeps) <= (IF retry.max_retries = 0 THEN 0 ELSE retry.max_retries - 1)
          /\ retry.pc = "call" => Len(calls) < retry.max_retries * Len(retry.models_to_try)
          /\ \A n \in 1..Len(calls) :
               calls[n].ok => (n = Len(calls) /\ retry.pc = "returned")
          /\ (retry.models_to_try = <<>> \/ retry.max_retries = 0) =>
               (retry.pc = "raised" /\ calls = <<>> /\ retry.sleeps = <<>>))
    /\ [][/\ retry.pc = "call"
          /\ Len(retry'.calls) = Len(retry.calls) + 1
          /\ Len(retry'.sleeps) \in {Len(retry.sleeps), Len(retry.sleeps) + 1}]_vars

\* Three rounds over two candidates have made all six calls, with a sleep
\* after the fourth and none in the last round, and the function has raised.
C28_Witness ==
    /\ retry.pc = "raised"
    /\ retry.max_retries = DefaultMaxRetries
    /\ Len(retry.models_to_try) = 2
    /\ Len(calls) = 6
    /\ Len(retry.sleeps) >= 1

(***************************************************************************)
(* Claims about _real_single_analysis (SpecReal)                           *)
(***************************************************************************)

RealExited == real.pc \in {"returned", "raised"}

\* C7: at every exit taken after the upload produced a remote asset, the
\* remote delete and the local remove have each been invoked exactly once; at
\* every exit taken with the temporary file created but no remote asset, the
\* local remove has been invoked exactly once and the remote delete never.
\* Neither is ever invoked twice.
C7_ResourceCleanup ==
    /\ real.remote_deletes <= 1
    /\ real.local_removes <= 1
    /\ (RealExited /\ real.gemini_file # "None") =>
           real.remote_deletes = 1 /\ real.local_removes = 1
    /\ (RealExited /\ real.temp_file_path # "None" /\ real.gemini_file = "None") =>
           real.remote_deletes = 0 /\ real.local_removes = 1

C7_Witness ==
    /\ real.pc = "raised"
    /\ real.error = "TimeoutError"
    /\ real.waited = MaxWaitTime
    /\ real.remote_deletes = 1
    /\ real.local_removes = 1

\* C21: the wait accumulates by the fixed interval, one interval per status
\* poll, and never exceeds the maximum; the call fails with a timeout exactly
\* at the bound with the asset still PROCESSING; an asset reported FAILED is a
\* failure of the call; in both cases, and as long as the asset is not ready,
\* the inference is never invoked.
C21_BoundedPolling ==
    /\ real.waited = WaitInterval * real.polls
    /\ real.waited <= MaxWaitTime
    /\ real.error = "TimeoutError" =>
         /\ real.waited = MaxWaitTime
         /\ real.gemini_file = "PROCESSING"
         /\ real.infers = 0
         /\ retry = RetryIdle
    /\ real.error = "ProcessingFailed" =>
         /\ real.gemini_file = "FAILED"
         /\ real.infers = 0
         /\ retry = RetryIdle
    /\ real.gemini_file \in {"PROCESSING", "FAILED"} =>
         /\ real.infers = 0
         /\ real.result = "None"
    /\ (RealExited /\ real.gemini_file = "PROCESSING") =>
         /\ real.pc = "raised"
         /\ real.error \in {"TimeoutError", "PollError"}
    /\ (RealExited /\ real.gemini_file = "FAILED") =>
         /\ real.pc = "raised"
         /\ real.error \in {"ProcessingFailed", "PollError"}

\* The asset stayed PROCESSING through every poll: the call timed out at the
\* bound without an inference.
C21_Witness ==
    /\ real.pc = "raised"
    /\ real.error = "TimeoutError"
    /\ real.polls * WaitInterval = MaxWaitTime
    /\ real.gemini_file = "PROCESSING"
    /\ real.infers = 0

\* The steps of the try statement in their order, then the two releases.
StepRank ==
    [fetch |-> 1, write |-> 2, upload |-> 3, poll |-> 4, infer |-> 5,
     release_remote |-> 6, release_local |-> 7, returned |-> 8, raised |-> 8]

\* C22: fetch, upload, poll, inference and release happen in this order, a
\* step beginning only when the one before it succeeded (the releases run
\* after a failure too); an invocation that has a video_url downloads exactly
\* once, no invocation downloads twice; when the download fails there is no
\* upload, poll or inference and the failure leaves the function.
C22_StepOrder ==
    /\ real.fetches <= 1
    /\ real.uploads <= 1
    /\ real.infers <= 1
    /\ (real.video_url # "" /\ StepRank[real.pc] > StepRank["fetch"]) => real.fetches = 1
    /\ real.video_url = "" =>
         real.fetches = 0 /\ real.uploads = 0 /\ real.polls = 0 /\ real.infers = 0
    /\ real.uploads > 0 =>
         /\ real.fetches = 1
         /\ real.temp_file_path # "None"
         /\ real.error \notin {"FetchError", "MkstempError", "WriteError"}
    /\ real.polls > 0 =>
         /\ real.uploads = 1
         /\ real.error # "UploadError"
    /\ real.infers > 0 =>
         /\ real.uploads = 1
         /\ real.gemini_file = "ACTIVE"
         /\ real.error \notin {"UploadError", "PollError", "TimeoutError", "ProcessingFailed"}
    /\ StepRank[real.pc] < StepRank["upload"] => real.uploads = 0
    /\ StepRank[real.pc] < StepRank["poll"] => real.polls = 0
    /\ StepRank[real.pc] < StepRank["infer"] => real.infers = 0
    /\ StepRank[real.pc] <= StepRank["release_remote"] =>
         real.remote_deletes = 0 /\ real.local_removes = 0
    /\ real.error = "FetchError" =>
         /\ real.fetches = 1
         /\ real.uploads = 0 /\ real.polls = 0 /\ real.infers = 0
         /\ retry = RetryIdle
         /\ RealExited => real.pc = "raised"

\* Every step was taken once, two polls, and the annotation was returned
\* after both releases.
C22_Witness ==
    /\ real.pc = "returned"
    /\ real.fetches = 1
    /\ real.uploads = 1
    /\ real.polls = 2
    /\ real.infers = 1
    /\ real.remote_deletes = 1
    /\ real.local_removes = 1
    /\ real.result = "analysis"

\* C23: the releases change neither the annotation to return nor the pending
\* exception, whether they succeed or fail: after the remote delete, failed or
\* not, the local file is looked at and removed if it exists; then the
\* function returns the annotation when no exception is pending and lets the
\* pending exception go on otherwise.
C23_ReleaseFailureIgnored ==
    [][/\ real.pc = "release_remote" =>
            /\ real'.pc = "release_local"
            /\ real'.error = real.error
            /\ real'.result = real.result
       /\ real.pc = "release_local" =>
            /\ real'.error = real.error
            /\ real'.result = real.result
            /\ real'.pc = IF real.error = "None" THEN "returned" ELSE "raised"
            /\ real'.local_removes =
                 real.local_removes + (IF real.temp_exists THEN 1 ELSE 0)]_vars

\* The remote delete and the local remove both failed; the annotation was
\* returned all the same.
C23_Witness ==
    /\ real.pc = "returned"
    /\ real.result = "analysis"
    /\ real.remote_deletes = 1
    /\ real.remote_exists
    /\ real.local_removes = 1
    /\ real.temp_exists

(***************************************************************************)
(* Claims about _fetch_top_for_network (SpecFetch)                         *)
(***************************************************************************)

FetchReturned == fetcher.pc = "returned"

BothListsEmpty ==
    summary.applovin_analyses = <<>> /\ summary.facebook_analyses = <<>>

\* Mock mode as configured, or as entered for lack of an API key.
NoExternalCallsMode == env.use_mock \/ ~env.GEMINI_API_KEY

\* C8: with both lists empty, or in mock mode (configured, or entered because
\* no API key is set), the summary is the fixed placeholder and neither the
\* coordinator nor the remote service has been called.
C8_PlaceholderWithoutCalls ==
    (summary.pc # "idle" /\ (BothListsEmpty \/ NoExternalCallsMode)) =>
        /\ summary.pc = "returned"
        /\ summary.result = MockStrategySummary
        /\ summary.coordinator_calls = 0
        /\ retry = RetryIdle

C8_Witness ==
    /\ summary.pc = "returned"
    /\ ~env.use_mock
    /\ ~env.GEMINI_API_KEY
    /\ ~BothListsEmpty
    /\ summary.result = MockStrategySummary

\* C9: generate_strategy_summary never raises; when the coordinator raised
\* exhaustion or the response does not decode, it returns the same fixed
\* placeholder as for empty input; the coordinator is entered at most once.
C9_SummaryNeverRaises ==
    /\ summary.pc \in {"idle", "call", "returned"}
    /\ summary.coordinator_calls <= 1
    /\ (summary.pc = "returned" /\ summary.coordinator_calls = 1
          /\ (retry.pc = "raised" \/ retry.response.body = "garbage")) =>
            summary.result = MockStrategySummary

C9_Witness ==
    /\ summary.pc = "returned"
    /\ retry.pc = "raised"
    /\ Len(calls) = DefaultMaxRetries * Len(SummaryModels)
    /\ summary.result = MockStrategySummary

====
